---- MODULE Spec2Model ----
(***************************************************************************)
(* Audio-to-video generation front end: the media generator                *)
(* (lumaGeneration.ts), the segment analyzer and the audio segmenter       *)
(* (audioAnalysis.ts), and the relay in front of the generation service    *)
(* (server/api.ts, vite.config.ts).                                        *)
(*                                                                         *)
(* Time is counted in milliseconds for the poll timer and in ticks of the  *)
(* audio clock for segment boundaries.  Texts returned by the              *)
(* text-generation service are sequences of tokens; HTTP answers are       *)
(* records drawn from small sets.                                          *)
(***************************************************************************)
EXTENDS Integers, Sequences, FiniteSets, TLC

VARIABLES
  job,        \* job[j]: one generateLumaImage / generateLumaVideo call
  spy,        \* fake clock and fetch counters of the single-call harness
  analyses,   \* argument of generateImagesInParallel
  batch,      \* locals of generateImagesInParallel: pc, i, results, errors
  log,        \* create requests and progress callbacks, in program order
  returned,   \* value generateImagesInParallel resolved with
  an,         \* one analyzeAudioSegment call
  split,      \* one splitAudioIntoSegments call
  flow,       \* one executeFullGenerationFlow call
  file,       \* one analyzeAudioFile call
  relay,      \* the relay server, its environment and the requests it handles
  wav,        \* one bufferToWav call
  ui          \* state hooks of the multi-segment App component

lumaVars == <<job, spy, analyses, batch, log, returned>>

audioVars == <<an, split>>

vars ==
  <<job, spy, analyses, batch, log, returned, an, split, flow, file, relay,
    wav, ui>>

-----------------------------------------------------------------------------
(* Bounds of the model *)

MaxAnalyses == 4
MaxTextLen == 4
MaxPromptLen == 3
MaxDuration == 10
MaxSegmentDuration == 4
MaxRequests == 3
MaxCountedAnalyses == 1
MaxFrames == 3
MaxChannels == 2

(* Program constants *)

maxAttempts == 30
pollingInterval == 2000
batchSize == 3

-----------------------------------------------------------------------------
(* Values *)

NoVal == "undefined"

Min(a, b) == IF a < b THEN a ELSE b

JobIds == 0..MaxAnalyses

\* `generation.id` of the job created for call j, and the literal ids of
\* locally made responses
GenId(j) == [tag |-> "gen", n |-> j]
ErrorId == [tag |-> "error", n |-> -1]
UnknownId == [tag |-> "unknown", n |-> -1]
ErrorIdOf(j) == [tag |-> "error-", n |-> j]

NoResponse ==
  [id |-> [tag |-> NoVal, n |-> -1], state |-> NoVal, imageUrl |-> NoVal,
   videoUrl |-> NoVal, failure_reason |-> NoVal]

Failed(id, reason) ==
  [id |-> id, state |-> "failed", imageUrl |-> NoVal, videoUrl |-> NoVal,
   failure_reason |-> reason]

Completed(id, image, video) ==
  [id |-> id, state |-> "completed", imageUrl |-> image, videoUrl |-> video,
   failure_reason |-> NoVal]

\* Messages of the program (the originals are Japanese sentences)
CreditsMessage == "Luma API credits are insufficient"
TimeoutMessage == "generation timed out"
NetworkMessage == "Failed to fetch"
SyntaxMessage == "Unexpected token in JSON"
UnknownError == "unknown error"

GenericMessage(req) ==
  CASE req = "image" -> "image generation request failed"
    [] req = "video" -> "video generation request failed"
    [] req = "status" -> "failed to get generation status"

StatusLine(req) ==
  CASE req = "image" -> "image generation request failed (500: Internal Server Error)"
    [] req = "video" -> "video generation request failed (500: Internal Server Error)"
    [] req = "status" -> "failed to get generation status (500: Internal Server Error)"

\* a JavaScript value that `||` skips
Falsy(v) == v \in {NoVal, ""}

Or(a, b) == IF Falsy(a) THEN b ELSE a

-----------------------------------------------------------------------------
(* Texts of the text-generation service *)

\* A text is a sequence of tokens: an opening brace, a closing brace, free
\* text, or the members of a JSON object.  The member tokens of the primary
\* answer name the fields they carry, a dash standing for a field that is
\* present with the empty string: "sv" has story and visual, "sv-" has them
\* and an empty emotion.
PrimaryMembers == {"sve", "ve", "se", "sv", "-ve", "s-e", "sv-"}

PrimaryTokens == {"{", "}", "x"} \cup PrimaryMembers

\* "p" is an imagePrompt member, "p-" one with the empty string
PromptMembers == {"p", "p-"}

PromptTokens == {"{", "}", "x"} \cup PromptMembers

TextsOver(tokens, len) == UNION {[1..k -> tokens] : k \in 0..len}

PrimaryTexts == TextsOver(PrimaryTokens, MaxTextLen)

PromptTexts == TextsOver(PromptTokens, MaxPromptLen)

NoObject == [story |-> NoVal, visual |-> NoVal, emotion |-> NoVal,
             imagePrompt |-> NoVal]

\* the object a member token denotes
MemberOf(tok) ==
  CASE tok = "sve" -> [NoObject EXCEPT !.story = "a story", !.visual = "a scene",
                                       !.emotion = "a mood"]
    [] tok = "ve" -> [NoObject EXCEPT !.visual = "a scene", !.emotion = "a mood"]
    [] tok = "se" -> [NoObject EXCEPT !.story = "a story", !.emotion = "a mood"]
    [] tok = "sv" -> [NoObject EXCEPT !.story = "a story", !.visual = "a scene"]
    [] tok = "-ve" -> [NoObject EXCEPT !.story = "", !.visual = "a scene",
                                       !.emotion = "a mood"]
    [] tok = "s-e" -> [NoObject EXCEPT !.story = "a story", !.visual = "",
                                       !.emotion = "a mood"]
    [] tok = "sv-" -> [NoObject EXCEPT !.story = "a story", !.visual = "a scene",
                                       !.emotion = ""]
    [] tok = "p" -> [NoObject EXCEPT !.imagePrompt = "a prompt"]
    [] tok = "p-" -> [NoObject EXCEPT !.imagePrompt = ""]

Members == PrimaryMembers \cup PromptMembers

\* text.match(/\{[\s\S]*\}/): from the first opening brace to the last
\* closing brace after it; the empty sequence stands for null
Match(text) ==
  LET opens == {p \in 1..Len(text) : text[p] = "{"}
      closes == {p \in 1..Len(text) : text[p] = "}"}
  IN
  IF opens = {} \/ closes = {} THEN <<>>
  ELSE LET a == CHOOSE p \in opens : \A q \in opens : p <= q
           b == CHOOSE p \in closes : \A q \in closes : q <= p
       IN IF a < b THEN SubSeq(text, a, b) ELSE <<>>

\* JSON.parse of a matched span: an object is an opening brace, members and
\* a closing brace; anything else is a syntax error
IsJson(span) ==
  /\ Len(span) >= 2
  /\ span[1] = "{"
  /\ span[Len(span)] = "}"
  /\ \A p \in 2..(Len(span) - 1) : span[p] \in Members

\* a later member replaces the fields it names
Merge(obj, m) ==
  [f \in DOMAIN obj |-> IF m[f] # NoVal THEN m[f] ELSE obj[f]]

RECURSIVE ParseMembers(_, _)
ParseMembers(span, p) ==
  IF p < 2 THEN NoObject
  ELSE Merge(ParseMembers(span, p - 1), MemberOf(span[p]))

JsonParse(span) == ParseMembers(span, Len(span) - 1)

\* the empty text '{}' used when the prompt answer has no brace span
EmptyObjectText == <<"{", "}">>

AnalysisFailedMessage == "analysis of the music failed"

ServiceError == "text service unavailable"

NoAnalysis ==
  [startTime |-> -1, endTime |-> -1, story |-> NoVal, visual |-> NoVal,
   emotion |-> NoVal, imagePrompt |-> NoVal]

IdleAnalysis ==
  [pc |-> "idle", startTime |-> 0, endTime |-> 0,
   primaryCalls |-> 0, synthCalls |-> 0,
   primaryThrew |-> FALSE, text |-> <<>>,
   synthThrew |-> FALSE, promptText |-> <<>>,
   analysis |-> NoObject, result |-> NoAnalysis, error |-> NoVal]

IdleSplit ==
  [pc |-> "idle", totalDuration |-> 0, segmentDuration |-> 1, startTime |-> 0,
   segments |-> <<>>, delivered |-> <<>>]

AudioIdle == an = IdleAnalysis /\ split = IdleSplit

\* the body of a video creation request before one is built
NoRequest ==
  [prompt |-> NoVal, model |-> NoVal, keyframes |-> [index \in {} |-> NoVal],
   audio |-> [url |-> NoVal]]

NoError == [message |-> NoVal, reason |-> NoVal]

\* executeFullGenerationFlow before the call
IdleFlow ==
  [pc |-> "idle", request |-> NoRequest, console |-> <<>>,
   result |-> NoResponse, error |-> NoError]

\* analyzeAudioFile before the call
IdleFile ==
  [pc |-> "idle", i |-> 0, analyses |-> <<>>, events |-> <<>>, error |-> NoVal]

NoEnv == [VITE_LUMA_API_KEY |-> NoVal, LUMA_API_KEY |-> NoVal]

\* the relay with no request received
IdleRelay ==
  [server |-> NoVal, env |-> NoEnv, inbox |-> <<>>, upstream |-> <<>>]

\* bufferToWav before the call
NoHeader ==
  [fileSize |-> 0, numOfChannels |-> 0, sampleRate |-> 0, byteRate |-> 0,
   blockSize |-> 0, bitDepth |-> 0, dataSize |-> 0]

IdleWav ==
  [pc |-> "idle", channelData |-> <<>>, header |-> NoHeader, audioData |-> <<>>]

NoProgress == [current |-> 0, total |-> 0]

\* the App component as first rendered; analysesOf, videoOf, analysisOf, flowOf
\* and flows are not state hooks: they record the file a stored result or a
\* running call belongs to and the number of generation flows in flight
IdleUi ==
  [file |-> NoVal, analyzing |-> FALSE, error |-> NoVal, analyses |-> <<>>,
   analysisProgress |-> NoProgress, generatingImages |-> FALSE,
   generatingVideo |-> FALSE, imageProgress |-> NoProgress,
   generatedVideo |-> NoResponse, videoStatus |-> 0,
   analysesOf |-> NoVal, videoOf |-> NoVal, analysisOf |-> NoVal,
   flowOf |-> NoVal, flows |-> 0]

RestIdle ==
  /\ flow = IdleFlow
  /\ file = IdleFile
  /\ relay = IdleRelay
  /\ wav = IdleWav
  /\ ui = IdleUi

-----------------------------------------------------------------------------
(* HTTP answers, the inputs of the media generator *)

\* body of a non-2xx answer: not JSON, or a JSON object with optional
\* detail and message
ErrorBodies ==
  {[json |-> FALSE, detail |-> NoVal, message |-> NoVal]} \cup
  {[json |-> TRUE, detail |-> d, message |-> m] :
     d \in {NoVal, "", "Insufficient credits", "rate limited"},
     m \in {NoVal, "", "bad request"}}

NoBody == [json |-> FALSE, detail |-> NoVal, message |-> NoVal]

NoAssets == [video_0_thumb |-> NoVal, image |-> NoVal, video |-> NoVal]

Assets ==
  [video_0_thumb : {NoVal, "thumb.jpg"}, image : {NoVal, "image.jpg"},
   video : {NoVal, "video.mp4"}]

Answer(kind, body, state, assets, reason) ==
  [kind |-> kind, body |-> body, state |-> state, assets |-> assets,
   failure_reason |-> reason]

\* answers to POST /api/luma
CreateResponses ==
  {Answer("neterr", NoBody, NoVal, NoAssets, NoVal),
   Answer("badjson", NoBody, NoVal, NoAssets, NoVal),
   Answer("ok", NoBody, NoVal, NoAssets, NoVal)} \cup
  {Answer("http", b, NoVal, NoAssets, NoVal) : b \in ErrorBodies}

\* answers to GET /api/luma/<id>
StatusAnswers ==
  {Answer("neterr", NoBody, NoVal, NoAssets, NoVal),
   Answer("badjson", NoBody, NoVal, NoAssets, NoVal)} \cup
  {Answer("http", b, NoVal, NoAssets, NoVal) : b \in ErrorBodies} \cup
  {Answer("ok", NoBody, s, NoAssets, NoVal) : s \in {"pending", "processing"}} \cup
  {Answer("ok", NoBody, "completed", a, NoVal) : a \in Assets} \cup
  {Answer("ok", NoBody, "failed", NoAssets, r) : r \in {NoVal, "upstream failure"}}

\* the answers the batch is driven with: each way a job can end, once
BatchCreateResponses ==
  {Answer("neterr", NoBody, NoVal, NoAssets, NoVal),
   Answer("ok", NoBody, NoVal, NoAssets, NoVal)}

BatchStatusAnswers ==
  {Answer("ok", NoBody, "pending", NoAssets, NoVal),
   Answer("ok", NoBody, "completed",
          [video_0_thumb |-> NoVal, image |-> "image.jpg", video |-> NoVal], NoVal),
   Answer("ok", NoBody, "failed", NoAssets, "upstream failure")}

-----------------------------------------------------------------------------
(* pollGenerationStatus, generateLumaImage, generateLumaVideo *)

\* variant: the message field is preferred to the detail field
ErrorMessageMessageFirst(req, body) ==
  IF ~body.json THEN StatusLine(req)
  ELSE IF body.detail = "Insufficient credits" THEN CreditsMessage
  ELSE Or(Or(body.message, body.detail), GenericMessage(req))

\* lines 381-396, 452-467, 518-533: the reason of a rejected request
ErrorMessage(req, body) ==
  IF ~body.json THEN StatusLine(req)
  ELSE IF body.detail = "Insufficient credits" THEN CreditsMessage
  ELSE Or(Or(body.detail, body.message), GenericMessage(req))

Return(v) == [tag |-> "return", value |-> v, error |-> NoVal]
Throw(e) == [tag |-> "throw", value |-> NoResponse, error |-> e]
Continue == [tag |-> "continue", value |-> NoResponse, error |-> NoVal]

\* variant: the loop test admits one more pass
WhileCondInclusive(attempts) == attempts <= maxAttempts

\* the loop test of pollGenerationStatus
WhileCond(attempts) == attempts < maxAttempts

\* variant: a failed answer is polled again like a pending one
HandleStatusFailedPending(id, ans) ==
  CASE ans.kind = "neterr" -> Throw(NetworkMessage)
    [] ans.kind = "http" -> Return(Failed(id, ErrorMessage("status", ans.body)))
    [] ans.kind = "badjson" -> Throw(SyntaxMessage)
    [] ans.kind = "ok" /\ ans.state = "completed" ->
         Return(Completed(id, Or(ans.assets.video_0_thumb, ans.assets.image),
                          ans.assets.video))
    [] OTHER -> Continue

\* one answer to a status query, lines 373-422
HandleStatus(id, ans) ==
  CASE ans.kind = "neterr" -> Throw(NetworkMessage)
    [] ans.kind = "http" -> Return(Failed(id, ErrorMessage("status", ans.body)))
    [] ans.kind = "badjson" -> Throw(SyntaxMessage)
    [] ans.kind = "ok" /\ ans.state = "completed" ->
         Return(Completed(id, Or(ans.assets.video_0_thumb, ans.assets.image),
                          ans.assets.video))
    [] ans.kind = "ok" /\ ans.state = "failed" ->
         Return(Failed(id, ans.failure_reason))
    [] OTHER -> Continue

\* variant: the catch clause drops the message of the error it caught
CatchNoMessage(error) == Failed(UnknownId, UnknownError)

\* the catch clause of generateLumaImage / generateLumaVideo
Catch(error) == Failed(UnknownId, error)

\* variant: no catch clause, an exception rejects the call
SettleUncaught(j, outcome) ==
  IF outcome.tag = "return"
  THEN [job[j] EXCEPT !.pc = "done", !.attempts = 0, !.result = outcome.value]
  ELSE [job[j] EXCEPT !.pc = "rejected", !.attempts = 0, !.error = outcome.error]

\* what the call resolves with once pollGenerationStatus returned or threw
\* (the locals of pollGenerationStatus end with the call)
Settle(j, outcome) ==
  [job[j] EXCEPT !.pc = "done",
                 !.attempts = 0,
                 !.result = IF outcome.tag = "return" THEN outcome.value
                            ELSE Catch(outcome.error)]

\* fake clock and fetch spy: the answer just received, q status queries
\* issued, w timer waits, p non-terminal answers seen
Tick(ans, q, w, p) ==
  spy' = IF spy.on
         THEN [spy EXCEPT !.last = ans, !.queries = @ + q, !.waits = @ + w,
                          !.clock = @ + w * pollingInterval,
                          !.pending = @ + p]
         ELSE spy

NoAnswer == Answer(NoVal, NoBody, NoVal, NoAssets, NoVal)

NoSpy == [on |-> FALSE, last |-> NoAnswer, queries |-> 0, waits |-> 0,
          clock |-> 0, pending |-> 0]

IdleJob == [kind |-> NoVal, pc |-> "idle", id |-> GenId(-1), attempts |-> 0,
            result |-> NoResponse, error |-> NoVal]

\* the synchronous head of generateLumaImage / generateLumaVideo: the create
\* request is issued
Created(kind) == [IdleJob EXCEPT !.kind = kind, !.pc = "creating"]

\* the answer to the create request, lines 451-478 and 517-544
CreateAnswer(j, resp) ==
  /\ job[j].pc = "creating"
  /\ CASE resp.kind = "neterr" ->
            /\ job' = [job EXCEPT ![j] = Settle(j, Throw(NetworkMessage))]
            /\ Tick(resp, 0, 0, 0)
       [] resp.kind = "badjson" ->
            /\ job' = [job EXCEPT ![j] = Settle(j, Throw(SyntaxMessage))]
            /\ Tick(resp, 0, 0, 0)
       [] resp.kind = "http" ->
            /\ job' = [job EXCEPT ![j] =
                 Settle(j, Return(Failed(ErrorId, ErrorMessage(job[j].kind, resp.body))))]
            /\ Tick(resp, 0, 0, 0)
       [] resp.kind = "ok" ->
            IF WhileCond(0)
            THEN /\ job' = [job EXCEPT ![j].pc = "polling", ![j].id = GenId(j),
                                       ![j].attempts = 0]
                 /\ Tick(resp, 1, 0, 0)
            ELSE /\ job' = [job EXCEPT ![j] = Settle(j, Throw(TimeoutMessage))]
                 /\ Tick(resp, 0, 0, 0)
  /\ UNCHANGED <<analyses, batch, log, returned, an, split, flow, file, relay, wav, ui>>

\* one pass of the while loop of pollGenerationStatus from the answer to the
\* query in flight: a terminal answer ends the call; otherwise the timer
\* runs, attempts is incremented and the loop test either issues the next
\* query or falls through to the timeout throw
PollIteration(j, ans) ==
  /\ job[j].pc = "polling"
  /\ LET o == HandleStatus(job[j].id, ans) IN
     IF o.tag # "continue"
     THEN /\ job' = [job EXCEPT ![j] = Settle(j, o)]
          /\ Tick(ans, 0, 0, 0)
     ELSE IF WhileCond(job[j].attempts + 1)
     THEN /\ job' = [job EXCEPT ![j].attempts = @ + 1]
          /\ Tick(ans, 1, 1, 1)
     ELSE /\ job' = [job EXCEPT ![j] = Settle(j, Throw(TimeoutMessage))]
          /\ Tick(ans, 0, 1, 1)
  /\ UNCHANGED <<analyses, batch, log, returned, an, split, flow, file, relay, wav, ui>>

-----------------------------------------------------------------------------
(* A single call of generateLumaImage or generateLumaVideo *)

NoBatch == [pc |-> "idle", i |-> 0, results |-> <<>>, errors |-> <<>>]

Create(j) == [ev |-> "create", a |-> j, b |-> 0]
Progress(p, total) == [ev |-> "progress", a |-> p, b |-> total]

InitJob ==
  /\ job = [j \in JobIds |-> IdleJob]
  /\ spy = [NoSpy EXCEPT !.on = TRUE]
  /\ analyses = <<>>
  /\ batch = NoBatch
  /\ log = <<>>
  /\ returned = <<>>
  /\ AudioIdle
  /\ RestIdle

\* handleGenerateImage and createVideoFromImages: the one call
DirectCall(kind) ==
  /\ job[0].pc = "idle"
  /\ job' = [job EXCEPT ![0] = Created(kind)]
  /\ log' = Append(log, Create(0))
  /\ UNCHANGED <<spy, analyses, batch, returned, an, split, flow, file, relay, wav, ui>>

JobCreateAnswer == \E resp \in CreateResponses : CreateAnswer(0, resp)

JobPollIteration == \E ans \in StatusAnswers : PollIteration(0, ans)

NextJob ==
  \/ \E kind \in {"image", "video"} : DirectCall(kind)
  \/ JobCreateAnswer
  \/ JobPollIteration

SpecJob == InitJob /\ [][NextJob]_vars

\* every request is answered or fails, and every timer fires
SpecJobFair ==
  SpecJob /\ WF_vars(JobCreateAnswer) /\ WF_vars(JobPollIteration)

-----------------------------------------------------------------------------
(* generateImagesInParallel *)

\* a list of n analyses as analyzeAudioFile returns it for 30-second segments
AnalysesOf(n) ==
  [k \in 1..n |-> [startTime |-> 30 * (k - 1), endTime |-> 30 * k,
                   imagePrompt |-> "prompt"]]

\* variant: the slice takes one element too many
BatchOfWide(i, n) == i .. (Min(i + batchSize + 1, n) - 1)

\* analyses.slice(i, i + batchSize): the segment indexes of the group at i
BatchOf(i, n) == i .. (Min(i + batchSize, n) - 1)

\* batch.map: every job of the group issues its create request
SubmitGroup(jobs, i, n) ==
  [j \in JobIds |-> IF j \in BatchOf(i, n) THEN Created("image") ELSE jobs[j]]

CreateLog(i, n) ==
  [k \in 1..Cardinality(BatchOf(i, n)) |-> Create(i + k - 1)]

\* variant: the entry is numbered by its position in the group
EntryLocalIndex(i, index) ==
  [segmentIndex |-> index,
   startTime |-> analyses[i + index + 1].startTime,
   endTime |-> analyses[i + index + 1].endTime,
   imageResponse |-> IF job[i + index].pc = "done" THEN job[i + index].result
                     ELSE Failed(ErrorIdOf(i + index), job[i + index].error)]

\* the .then / .catch continuation of the job at position index of group i
Entry(i, index) ==
  [segmentIndex |-> i + index,
   startTime |-> analyses[i + index + 1].startTime,
   endTime |-> analyses[i + index + 1].endTime,
   imageResponse |-> IF job[i + index].pc = "done" THEN job[i + index].result
                     ELSE Failed(ErrorIdOf(i + index), job[i + index].error)]

\* variant: the first settled job ends the wait (Promise.race)
GroupSettledAny(i, n) == \E j \in BatchOf(i, n) : job[j].pc \in {"done", "rejected"}

\* Promise.all(batchPromises) resolved
GroupSettled(i, n) == \A j \in BatchOf(i, n) : job[j].pc \in {"done", "rejected"}

BatchResults(i, n) ==
  [k \in 1..Cardinality(BatchOf(i, n)) |-> Entry(i, k - 1)]

\* errors.push of the .catch continuations of group i
RECURSIVE BatchErrors(_, _)
BatchErrors(i, m) ==
  IF m = 0 THEN <<>>
  ELSE LET rest == BatchErrors(i, m - 1)
           j == i + m - 1
       IN IF job[j].pc = "rejected"
          THEN Append(rest, [index |-> j, error |-> job[j].error])
          ELSE rest

\* Array.prototype.sort with (a, b) => a.segmentIndex - b.segmentIndex
RECURSIVE Insert(_, _)
Insert(e, s) ==
  IF s = <<>> THEN <<e>>
  ELSE IF e.segmentIndex - s[Len(s)].segmentIndex >= 0 THEN Append(s, e)
  ELSE Append(Insert(e, SubSeq(s, 1, Len(s) - 1)), s[Len(s)])

RECURSIVE SortBySegmentIndex(_)
SortBySegmentIndex(s) ==
  IF s = <<>> THEN <<>>
  ELSE Insert(s[Len(s)], SortBySegmentIndex(SubSeq(s, 1, Len(s) - 1)))

InitBatch ==
  /\ job = [j \in JobIds |-> IdleJob]
  /\ spy = NoSpy
  /\ analyses \in {AnalysesOf(n) : n \in 0..MaxAnalyses}
  /\ batch = NoBatch
  /\ log = <<>>
  /\ returned = <<>>
  /\ AudioIdle
  /\ RestIdle

\* the call, lg being the events logged up to it: with no analyses the loop
\* is skipped, else the first group is submitted and the function awaits it
StartBatch(lg) ==
  /\ batch.pc = "idle"
  /\ LET n == Len(analyses) IN
     IF 0 < n
     THEN /\ job' = SubmitGroup(job, 0, n)
          /\ log' = lg \o CreateLog(0, n)
          /\ batch' = [batch EXCEPT !.pc = "awaiting", !.i = 0]
          /\ UNCHANGED returned
     ELSE /\ batch' = [batch EXCEPT !.pc = "returned"]
          /\ returned' = SortBySegmentIndex(batch.results)
          /\ log' = lg
          /\ UNCHANGED job

\* generateImagesInParallel called on its own
CallBatch ==
  /\ StartBatch(log)
  /\ UNCHANGED <<spy, analyses, an, split, flow, file, relay, wav, ui>>

\* the continuation after await Promise.all: the results of the group are
\* pushed, progress is reported, and the loop either submits the next group
\* or ends, sorts the results in place and returns them
PushGroup ==
  /\ batch.pc = "awaiting"
  /\ GroupSettled(batch.i, Len(analyses))
  /\ LET n == Len(analyses)
         m == Cardinality(BatchOf(batch.i, n))
         res == batch.results \o BatchResults(batch.i, n)
         errs == batch.errors \o BatchErrors(batch.i, m)
         next == batch.i + batchSize
         lg == Append(log, Progress(Min(batch.i + batchSize, n), n))
     IN IF next < n
        THEN /\ job' = SubmitGroup(job, next, n)
             /\ log' = lg \o CreateLog(next, n)
             /\ batch' = [pc |-> "awaiting", i |-> next, results |-> res,
                          errors |-> errs]
             /\ UNCHANGED returned
        ELSE /\ batch' = [pc |-> "returned", i |-> next,
                          results |-> SortBySegmentIndex(res), errors |-> errs]
             /\ returned' = SortBySegmentIndex(res)
             /\ log' = lg
             /\ UNCHANGED job

FinishGroup ==
  /\ PushGroup
  /\ UNCHANGED <<spy, analyses, an, split, flow, file, relay, wav, ui>>

BatchCreateAnswer ==
  \E j \in JobIds : \E resp \in BatchCreateResponses : CreateAnswer(j, resp)

BatchPollIteration ==
  \E j \in JobIds : \E ans \in BatchStatusAnswers : PollIteration(j, ans)

NextBatch ==
  \/ CallBatch
  \/ BatchCreateAnswer
  \/ BatchPollIteration
  \/ FinishGroup

SpecBatch == InitBatch /\ [][NextBatch]_vars

-----------------------------------------------------------------------------
(* createVideoFromImages, executeFullGenerationFlow *)

OverallPrompt == "cinematic video"
DefaultPrompt == "smooth transition"

\* createAudioFileUrl: the object URL of the audio file
AudioUrl == "blob:audio"

NoImagesMessage == "no valid images"
VideoFailedMessage == "video generation failed"
DegradedWarning == "video quality may degrade"

\* the messages passed to onVideoProgress
ImagesStarting == 1
VideoStarting == 2
VideoCompleted == 3

Status(k) == [ev |-> "status", a |-> k, b |-> 0]

FlowError(message, reason) == [message |-> message, reason |-> reason]

\* the asset URL the upstream service gives the image of job j
ImageUrls ==
  <<"image0.jpg", "image1.jpg", "image2.jpg", "image3.jpg", "image4.jpg",
    "image5.jpg", "image6.jpg", "image7.jpg">>

ImageUrl(j) == ImageUrls[j + 1]

\* status answers of the upstream service to job j of a flow
FlowStatusAnswers(j) ==
  {Answer("ok", NoBody, "pending", NoAssets, NoVal),
   Answer("ok", NoBody, "completed", NoAssets, NoVal),
   Answer("ok", NoBody, "completed",
          IF job[j].kind = "video"
          THEN [video_0_thumb |-> NoVal, image |-> NoVal, video |-> "video.mp4"]
          ELSE [video_0_thumb |-> NoVal, image |-> ImageUrl(j), video |-> NoVal],
          NoVal),
   Answer("ok", NoBody, "failed", NoAssets, "upstream failure")}

\* variant: the filter looks at the state only
SuccessfulStateOnly(img) == img.imageResponse.state = "completed"

\* the filter of createVideoFromImages
Successful(img) ==
  /\ img.imageResponse.state = "completed"
  /\ ~Falsy(img.imageResponse.imageUrl)

SuccessfulImages(generatedImages) == SelectSeq(generatedImages, Successful)

\* successfulImages.length < generatedImages.length * 0.5
TooFewImages(successful, generated) == 2 * successful < generated

\* variant: the keyframe is timed at the end of its segment
KeyframeAtEnd(img) ==
  [type |-> "image", url |-> img.imageResponse.imageUrl, timing |-> img.endTime]

Keyframe(img) ==
  [type |-> "image", url |-> img.imageResponse.imageUrl, timing |-> img.startTime]

\* successfulImages.forEach: frame<index> for every image that has a URL
Keyframes(successfulImages) ==
  [index \in {x - 1 : x \in {y \in 1..Len(successfulImages) :
                               ~Falsy(successfulImages[y].imageResponse.imageUrl)}}
     |-> Keyframe(successfulImages[index + 1])]

\* the request body generateLumaVideo builds from the options of
\* createVideoFromImages
VideoRequest(successfulImages) ==
  [prompt |-> Or(OverallPrompt, DefaultPrompt),
   model |-> Or("ray-2", "ray-2"),
   keyframes |-> Keyframes(successfulImages),
   audio |-> [url |-> AudioUrl]]

\* the job of the video, numbered after the image jobs
VideoJob == Len(analyses)

\* variant: a failed video response is returned like a completed one
VideoFailedIgnored(response) == FALSE

\* videoResponse.state === 'failed'
VideoFailed(response) == response.state = "failed"

InitFlow ==
  /\ job = [j \in JobIds |-> IdleJob]
  /\ spy = NoSpy
  /\ analyses \in {AnalysesOf(n) : n \in 0..MaxAnalyses}
  /\ batch = NoBatch
  /\ log = <<>>
  /\ returned = <<>>
  /\ AudioIdle
  /\ RestIdle

\* the call: the first status message, then generateImagesInParallel is
\* called and awaited
FlowCall ==
  /\ flow.pc = "idle"
  /\ flow' = [flow EXCEPT !.pc = "images"]
  /\ StartBatch(Append(log, Status(ImagesStarting)))
  /\ UNCHANGED <<spy, analyses, an, split, file, relay, wav, ui>>

\* the continuation after generateImagesInParallel returned: the second
\* status message, then createVideoFromImages filters the images and either
\* throws, which the flow rethrows, or warns if too few are left, builds the
\* keyframes and issues the create request of generateLumaVideo
ImagesDone ==
  /\ flow.pc = "images"
  /\ batch.pc = "returned"
  /\ LET successfulImages == SuccessfulImages(returned)
         lg == Append(log, Status(VideoStarting))
     IN IF Len(successfulImages) = 0
        THEN /\ flow' = [flow EXCEPT !.pc = "threw",
                                     !.error = FlowError(NoImagesMessage, NoVal)]
             /\ log' = lg
             /\ UNCHANGED job
        ELSE /\ flow' = [flow EXCEPT
                           !.pc = "video",
                           !.console =
                              IF TooFewImages(Len(successfulImages), Len(returned))
                              THEN Append(@, DegradedWarning) ELSE @,
                           !.request = VideoRequest(successfulImages)]
             /\ job' = [job EXCEPT ![VideoJob] = Created("video")]
             /\ log' = Append(lg, Create(VideoJob))

FlowImagesDone ==
  /\ ImagesDone
  /\ UNCHANGED <<spy, analyses, batch, returned, an, split, file, relay, wav, ui>>

\* the continuation after createVideoFromImages settled: a rejection and a
\* failed response are thrown, else the last status message is passed and
\* the response is returned
VideoDone ==
  /\ flow.pc = "video"
  /\ job[VideoJob].pc \in {"done", "rejected"}
  /\ IF job[VideoJob].pc = "rejected"
     THEN /\ flow' = [flow EXCEPT !.pc = "threw",
                                  !.error = FlowError(job[VideoJob].error, NoVal)]
          /\ UNCHANGED log
     ELSE IF VideoFailed(job[VideoJob].result)
     THEN /\ flow' = [flow EXCEPT
                        !.pc = "threw",
                        !.error = FlowError(VideoFailedMessage,
                                            job[VideoJob].result.failure_reason)]
          /\ UNCHANGED log
     ELSE /\ flow' = [flow EXCEPT !.pc = "returned",
                                  !.result = job[VideoJob].result]
          /\ log' = Append(log, Status(VideoCompleted))

FlowVideoDone ==
  /\ VideoDone
  /\ UNCHANGED <<job, spy, analyses, batch, returned, an, split, file, relay, wav, ui>>

FlowCreateAnswer ==
  \E j \in JobIds : \E resp \in BatchCreateResponses : CreateAnswer(j, resp)

FlowPollIteration ==
  \E j \in JobIds : /\ job[j].pc = "polling"
                    /\ \E ans \in FlowStatusAnswers(j) : PollIteration(j, ans)

NextFlow ==
  \/ FlowCall
  \/ FlowCreateAnswer
  \/ FlowPollIteration
  \/ FinishGroup
  \/ FlowImagesDone
  \/ FlowVideoDone

SpecFlow == InitFlow /\ [][NextFlow]_vars

\* a flow over few analyses whose status queries and timer waits are counted
InitFlowCounted ==
  /\ job = [j \in JobIds |-> IdleJob]
  /\ spy = [NoSpy EXCEPT !.on = TRUE]
  /\ analyses \in {AnalysesOf(n) : n \in 0..MaxCountedAnalyses}
  /\ batch = NoBatch
  /\ log = <<>>
  /\ returned = <<>>
  /\ AudioIdle
  /\ RestIdle

\* every request is answered or fails, every timer fires and every
\* continuation whose promise settled is run
SpecFlowFair ==
  /\ InitFlowCounted
  /\ [][NextFlow]_vars
  /\ WF_vars(FlowCreateAnswer)
  /\ WF_vars(FlowPollIteration)
  /\ WF_vars(FinishGroup)
  /\ WF_vars(FlowImagesDone)
  /\ WF_vars(FlowVideoDone)

-----------------------------------------------------------------------------
(* analyzeAudioSegment *)

LumaIdle ==
  /\ job = [j \in JobIds |-> IdleJob]
  /\ spy = NoSpy
  /\ analyses = <<>>
  /\ batch = NoBatch
  /\ log = <<>>
  /\ returned = <<>>

\* variant: the emotion field is not required
RequiredFieldsNoEmotion(analysis) ==
  ~Falsy(analysis.story) /\ ~Falsy(analysis.visual)

\* !analysis.story || !analysis.visual || !analysis.emotion, negated
RequiredFields(analysis) ==
  ~Falsy(analysis.story) /\ ~Falsy(analysis.visual) /\ ~Falsy(analysis.emotion)

\* lines 283-293: the try block up to the check of the three fields
PrimaryOk(text) ==
  /\ Match(text) # <<>>
  /\ IsJson(Match(text))
  /\ RequiredFields(JsonParse(Match(text)))

\* line 319: promptText.match(...)?.[0] || '{}'
PromptSpan(promptText) ==
  IF Match(promptText) # <<>> THEN Match(promptText) ELSE EmptyObjectText

InitAnalyze ==
  /\ LumaIdle
  /\ RestIdle
  /\ an = IdleAnalysis
  /\ split = IdleSplit

\* the call: the primary request is issued for the segment
AnalyzeCall ==
  /\ an.pc = "idle"
  /\ \E k \in 0..1 :
       an' = [an EXCEPT !.pc = "primary", !.startTime = 30 * k,
                        !.endTime = 30 * (k + 1), !.primaryCalls = @ + 1]
  /\ UNCHANGED <<lumaVars, split, flow, file, relay, wav, ui>>

\* the primary request fails: lines 279-281 are outside the try block
PrimaryThrows ==
  /\ an.pc = "primary"
  /\ an' = [an EXCEPT !.pc = "failed", !.primaryThrew = TRUE,
                      !.error = ServiceError]
  /\ UNCHANGED <<lumaVars, split, flow, file, relay, wav, ui>>

\* the primary answer arrives: lines 281-315
PrimaryAnswer(text) ==
  /\ an.pc = "primary"
  /\ IF PrimaryOk(text)
     THEN an' = [an EXCEPT !.pc = "synth", !.text = text,
                           !.analysis = JsonParse(Match(text)),
                           !.synthCalls = @ + 1]
     ELSE an' = [an EXCEPT !.pc = "failed", !.text = text,
                           !.error = AnalysisFailedMessage]
  /\ UNCHANGED <<lumaVars, split, flow, file, relay, wav, ui>>

\* the prompt-synthesis request fails inside the try block: lines 315, 329-331
SynthThrows ==
  /\ an.pc = "synth"
  /\ an' = [an EXCEPT !.pc = "failed", !.synthThrew = TRUE,
                      !.error = AnalysisFailedMessage]
  /\ UNCHANGED <<lumaVars, split, flow, file, relay, wav, ui>>

\* the prompt-synthesis answer arrives: lines 317-332
SynthAnswer(promptText) ==
  /\ an.pc = "synth"
  /\ IF IsJson(PromptSpan(promptText))
     THEN an' = [an EXCEPT
            !.pc = "returned", !.promptText = promptText,
            !.result = [startTime |-> an.startTime, endTime |-> an.endTime,
                        story |-> an.analysis.story,
                        visual |-> an.analysis.visual,
                        emotion |-> an.analysis.emotion,
                        imagePrompt |->
                          Or(JsonParse(PromptSpan(promptText)).imagePrompt, "")]]
     ELSE an' = [an EXCEPT !.pc = "failed", !.promptText = promptText,
                           !.error = AnalysisFailedMessage]
  /\ UNCHANGED <<lumaVars, split, flow, file, relay, wav, ui>>

AnalyzePrimaryAnswer ==
  /\ an.pc = "primary"
  /\ \E text \in PrimaryTexts : PrimaryAnswer(text)

AnalyzeSynthAnswer ==
  /\ an.pc = "synth"
  /\ \E promptText \in PromptTexts : SynthAnswer(promptText)

NextAnalyze ==
  \/ AnalyzeCall
  \/ PrimaryThrows
  \/ AnalyzePrimaryAnswer
  \/ SynthThrows
  \/ AnalyzeSynthAnswer

SpecAnalyze == InitAnalyze /\ [][NextAnalyze]_vars

-----------------------------------------------------------------------------
(* splitAudioIntoSegments *)

\* Durations and times are counted in ticks of the audio clock.

\* variant: the end of the last segment is not clamped to the total duration
SegmentEndUnclamped(startTime, segmentDuration, totalDuration) ==
  startTime + segmentDuration

\* Math.min(startTime + segmentDuration, totalDuration)
SegmentEnd(startTime, segmentDuration, totalDuration) ==
  Min(startTime + segmentDuration, totalDuration)

\* the test of the for loop
ForCond(startTime, totalDuration) == startTime < totalDuration

InitSplit ==
  /\ LumaIdle
  /\ RestIdle
  /\ an = IdleAnalysis
  /\ split \in {[IdleSplit EXCEPT !.totalDuration = t, !.segmentDuration = d] :
                  t \in 0..MaxDuration, d \in 1..MaxSegmentDuration}

\* the call: readAsArrayBuffer is started
SplitCall ==
  /\ split.pc = "idle"
  /\ split' = [split EXCEPT !.pc = "reading"]
  /\ UNCHANGED <<lumaVars, an, flow, file, relay, wav, ui>>

\* the file is read and decoded: the loop starts at 0 and runs to the first
\* await, or is skipped and the empty list is delivered
Decoded ==
  /\ split.pc = "reading"
  /\ IF ForCond(0, split.totalDuration)
     THEN split' = [split EXCEPT !.pc = "segment", !.startTime = 0]
     ELSE split' = [split EXCEPT !.pc = "resolved", !.delivered = split.segments]
  /\ UNCHANGED <<lumaVars, an, flow, file, relay, wav, ui>>

\* the segment at startTime is rendered and encoded: it is pushed, startTime
\* advances, and the loop either starts the next segment or ends and
\* resolves with the list
SegmentEncoded ==
  /\ split.pc = "segment"
  /\ LET segs == Append(split.segments,
                   [startTime |-> split.startTime,
                    endTime |-> SegmentEnd(split.startTime, split.segmentDuration,
                                           split.totalDuration)])
         next == split.startTime + split.segmentDuration
     IN IF ForCond(next, split.totalDuration)
        THEN split' = [split EXCEPT !.segments = segs, !.startTime = next]
        ELSE split' = [split EXCEPT !.pc = "resolved", !.segments = segs,
                                    !.startTime = next, !.delivered = segs]
  /\ UNCHANGED <<lumaVars, an, flow, file, relay, wav, ui>>

\* variant: a failure ends the loop and the segments made so far are
\* delivered
SplitFailsPartial ==
  /\ split.pc \in {"reading", "segment"}
  /\ split' = [split EXCEPT !.pc = "resolved", !.delivered = split.segments]
  /\ UNCHANGED <<lumaVars, an, flow, file, relay, wav, ui>>

\* reading, decoding, rendering or encoding fails: reject(error)
SplitFails ==
  /\ split.pc \in {"reading", "segment"}
  /\ split' = [split EXCEPT !.pc = "rejected"]
  /\ UNCHANGED <<lumaVars, an, flow, file, relay, wav, ui>>

NextSplit ==
  \/ SplitCall
  \/ Decoded
  \/ SegmentEncoded
  \/ SplitFails

SpecSplit == InitSplit /\ [][NextSplit]_vars

-----------------------------------------------------------------------------
(* analyzeAudioFile *)

\* answers of the text-generation service in a run over a whole file
FilePrimaryTexts == {<<"{", "sve", "}">>, <<"{", "sv", "}">>}

FilePromptTexts == {<<"{", "p", "}">>}

SplitError == "audio could not be decoded"

\* analyzeAudioSegment(segments[i]) is called
Analyze(i) == [ev |-> "analyze", a |-> i, b |-> 0]

\* variant: the progress callback gets the index of the segment
ProgressOfIndex(i, total) == Progress(i, total)

\* onProgress(i + 1, segments.length)
ProgressOf(i, total) == Progress(i + 1, total)

\* the primary request of analyzeAudioSegment(segment) is issued
StartSegment(segment) ==
  [IdleAnalysis EXCEPT !.pc = "primary", !.startTime = segment.startTime,
                       !.endTime = segment.endTime, !.primaryCalls = 1]

InitFile ==
  /\ LumaIdle
  /\ RestIdle
  /\ an = IdleAnalysis
  /\ split \in {[IdleSplit EXCEPT !.totalDuration = t, !.segmentDuration = d] :
                  t \in 0..MaxDuration, d \in 1..MaxSegmentDuration}

\* the call: splitAudioIntoSegments is called and awaited
FileCall ==
  /\ file.pc = "idle"
  /\ split.pc = "idle"
  /\ file' = [file EXCEPT !.pc = "splitting"]
  /\ split' = [split EXCEPT !.pc = "reading"]
  /\ UNCHANGED <<lumaVars, an, flow, relay, wav, ui>>

\* the segments are delivered: the loop analyses the first one, or is
\* skipped and the empty list is returned
SegmentsReady ==
  /\ file.pc = "splitting"
  /\ split.pc = "resolved"
  /\ IF 0 < Len(split.delivered)
     THEN /\ file' = [file EXCEPT !.pc = "analyzing", !.i = 0,
                                  !.events = Append(@, Analyze(0))]
          /\ an' = StartSegment(split.delivered[1])
     ELSE /\ file' = [file EXCEPT !.pc = "returned"]
          /\ UNCHANGED an

FileSegmentsReady ==
  /\ SegmentsReady
  /\ UNCHANGED <<lumaVars, split, flow, relay, wav, ui>>

\* splitAudioIntoSegments rejected: the catch logs and rethrows
SplitFailed ==
  /\ file.pc = "splitting"
  /\ split.pc = "rejected"
  /\ file' = [file EXCEPT !.pc = "failed", !.error = SplitError]

FileSplitFailed ==
  /\ SplitFailed
  /\ UNCHANGED <<lumaVars, an, split, flow, relay, wav, ui>>

FilePrimaryAnswer ==
  /\ file.pc = "analyzing"
  /\ an.pc = "primary"
  /\ \E text \in FilePrimaryTexts : PrimaryAnswer(text)

FileSynthAnswer ==
  /\ file.pc = "analyzing"
  /\ an.pc = "synth"
  /\ \E promptText \in FilePromptTexts : SynthAnswer(promptText)

\* the analysis of segment i returned: it is pushed, progress is reported,
\* and the loop either analyses the next segment or returns the list
SegmentDone ==
  /\ file.pc = "analyzing"
  /\ an.pc = "returned"
  /\ LET total == Len(split.delivered)
         next == file.i + 1
         done == Append(file.analyses, an.result)
         evs == Append(file.events, ProgressOf(file.i, total))
     IN IF next < total
        THEN /\ file' = [file EXCEPT !.i = next, !.analyses = done,
                                     !.events = Append(evs, Analyze(next))]
             /\ an' = StartSegment(split.delivered[next + 1])
        ELSE /\ file' = [file EXCEPT !.pc = "returned", !.i = next,
                                     !.analyses = done, !.events = evs]
             /\ UNCHANGED an

FileSegmentDone ==
  /\ SegmentDone
  /\ UNCHANGED <<lumaVars, split, flow, relay, wav, ui>>

\* variant: the analyses made before the failing segment are returned
SegmentFailedPartial ==
  /\ file.pc = "analyzing"
  /\ an.pc = "failed"
  /\ file' = [file EXCEPT !.pc = "returned"]

\* the analysis of segment i threw: the catch logs and rethrows, the
\* analyses made so far are dropped
SegmentFailed ==
  /\ file.pc = "analyzing"
  /\ an.pc = "failed"
  /\ file' = [file EXCEPT !.pc = "failed", !.error = an.error]

FileSegmentFailed ==
  /\ SegmentFailed
  /\ UNCHANGED <<lumaVars, an, split, flow, relay, wav, ui>>

NextFile ==
  \/ FileCall
  \/ Decoded
  \/ SegmentEncoded
  \/ SplitFails
  \/ FileSegmentsReady
  \/ FileSplitFailed
  \/ PrimaryThrows
  \/ FilePrimaryAnswer
  \/ SynthThrows
  \/ FileSynthAnswer
  \/ FileSegmentDone
  \/ FileSegmentFailed

SpecFile == InitFile /\ [][NextFile]_vars

-----------------------------------------------------------------------------
(* The relay (server/api.ts, vite.config.ts) and the requests of the browser *)

\* the bearer credential of the generation service
LumaKey == "luma-secret"

\* values of an environment variable: unset, empty, or the credential
EnvValues == {NoVal, "", LumaKey}

\* `Bearer ${token}`, with the side that wrote the header
Bearer(token, setBy) == [scheme |-> "Bearer", token |-> token, setBy |-> setBy]

\* job ids the browser asks the status of
GenerationIds == {"gen-0", "gen-1"}

\* fetch('/api/luma', POST) and fetch(`/api/luma/${id}`): the request the
\* browser-side code sends, id being "" for a create request
BrowserFetch(env, id) ==
  [method |-> IF id = "" THEN "POST" ELSE "GET",
   base |-> "/api/luma", id |-> id,
   authorization |-> Bearer(env.VITE_LUMA_API_KEY, "browser")]

\* onProxyReq of both routes of server/api.ts: the header is overwritten
\* only if LUMA_API_KEY is set, else the header of the browser goes through
ProxyAuthorization(env, req) ==
  IF ~Falsy(env.LUMA_API_KEY) THEN Bearer(env.LUMA_API_KEY, "relay")
  ELSE req.authorization

\* server/api.ts: the route mounted at /api/luma takes create and status
\* requests alike and rewrites the prefix
ExpressProxy(env, req) ==
  [via |-> "express", method |-> req.method,
   base |-> "/dream-machine/v1/generations", id |-> req.id,
   authorization |-> ProxyAuthorization(env, req)]

\* vite.config.ts: the development proxy adds its own header
ViteProxy(env, req) ==
  [via |-> "vite", method |-> req.method,
   base |-> "/v1/images/generations", id |-> req.id,
   authorization |-> Bearer(Or(env.VITE_LUMA_API_KEY, ""), "relay")]

InitRelay ==
  /\ LumaIdle
  /\ AudioIdle
  /\ flow = IdleFlow
  /\ file = IdleFile
  /\ wav = IdleWav
  /\ ui = IdleUi
  /\ relay \in {[IdleRelay EXCEPT !.server = sv,
                                  !.env = [VITE_LUMA_API_KEY |-> v,
                                           LUMA_API_KEY |-> k]] :
                  sv \in {"express", "vite"}, v \in {NoVal, LumaKey},
                  k \in EnvValues}

\* the browser-side code issues a create or a status request
BrowserRequest ==
  /\ Len(relay.inbox) + Len(relay.upstream) < MaxRequests
  /\ \E id \in {""} \cup GenerationIds :
       relay' = [relay EXCEPT !.inbox = Append(@, BrowserFetch(relay.env, id))]
  /\ UNCHANGED <<lumaVars, audioVars, flow, file, wav, ui>>

\* the Express relay forwards the oldest request upstream
ExpressForward ==
  /\ relay.server = "express"
  /\ relay.inbox # <<>>
  /\ relay' = [relay EXCEPT
                 !.inbox = Tail(@),
                 !.upstream = Append(@, ExpressProxy(relay.env, Head(relay.inbox)))]
  /\ UNCHANGED <<lumaVars, audioVars, flow, file, wav, ui>>

\* the development proxy forwards the oldest request upstream
ViteForward ==
  /\ relay.server = "vite"
  /\ relay.inbox # <<>>
  /\ relay' = [relay EXCEPT
                 !.inbox = Tail(@),
                 !.upstream = Append(@, ViteProxy(relay.env, Head(relay.inbox)))]
  /\ UNCHANGED <<lumaVars, audioVars, flow, file, wav, ui>>

NextRelay ==
  \/ BrowserRequest
  \/ ExpressForward
  \/ ViteForward

SpecRelay == InitRelay /\ [][NextRelay]_vars

-----------------------------------------------------------------------------
(* bufferToWav *)

\* sample values of a channel, in units of full scale; 2 and -2 are clamped
SampleValues == {-2, 0, 1}

SampleRate == 8

\* the channel data of the audio buffers of c channels and n frames
BuffersOf(c, n) == [1..c -> [1..n -> SampleValues]]

FramesOf(channelData) == Len(channelData[1])

\* setUint16 keeps 16 bits; setUint32 keeps 32 bits, which every size of a
\* buffer within the bounds fits with room to spare
Uint16(v) == v % 65536
Uint32(v) == v

\* Math.max(-1, Math.min(1, x))
Clamp(x) == IF x < -1 THEN -1 ELSE IF 1 < x THEN 1 ELSE x

\* sample < 0 ? sample * 0x8000 : sample * 0x7FFF, stored in an Int16Array
ToInt16(sample) == IF sample < 0 THEN sample * 32768 ELSE sample * 32767

\* const length = buffer.length * numOfChannels * 2
ByteLength(frames, channels) == frames * channels * 2

\* the 44-byte header
WavHeader(frames, channels) ==
  [fileSize |-> Uint32(36 + ByteLength(frames, channels)),
   numOfChannels |-> Uint16(channels),
   sampleRate |-> Uint32(SampleRate),
   byteRate |-> Uint32(SampleRate * channels * 2),
   blockSize |-> Uint16(channels * 2),
   bitDepth |-> 16,
   dataSize |-> Uint32(ByteLength(frames, channels))]

\* new Int16Array(length) filled frame by frame, channel by channel; the
\* elements the loops do not reach stay 0
AudioData(channelData) ==
  LET channels == Len(channelData)
      frames == FramesOf(channelData)
  IN [offset \in 1..ByteLength(frames, channels) |->
        IF offset <= frames * channels
        THEN ToInt16(Clamp(channelData[((offset - 1) % channels) + 1]
                                      [((offset - 1) \div channels) + 1]))
        ELSE 0]

\* the bytes of the blob after the header: two per element
PayloadBytes(audioData) == 2 * Len(audioData)

InitWav ==
  /\ LumaIdle
  /\ AudioIdle
  /\ flow = IdleFlow
  /\ file = IdleFile
  /\ relay = IdleRelay
  /\ ui = IdleUi
  /\ wav \in {[IdleWav EXCEPT !.channelData = d] :
                d \in UNION {BuffersOf(c, n) : c \in 1..MaxChannels,
                                               n \in 0..MaxFrames}}

\* the call: header and samples are written and the blob is returned
BufferToWav ==
  /\ wav.pc = "idle"
  /\ wav' = [wav EXCEPT
               !.pc = "encoded",
               !.header = WavHeader(FramesOf(wav.channelData),
                                    Len(wav.channelData)),
               !.audioData = AudioData(wav.channelData)]
  /\ UNCHANGED <<lumaVars, audioVars, flow, file, relay, ui>>

NextWav == BufferToWav

SpecWav == InitWav /\ [][NextWav]_vars

-----------------------------------------------------------------------------
(* The App component of the multi-segment UI *)

\* The state hooks audioUrl, generatedImages and activeTab are written by the
\* handlers but read by none of them, and the segment duration is left at
\* its initial value; they are not part of ui.

\* the audio files the user can select and their durations in seconds
Files == {"a.mp3", "b.mp3"}

DurationOf(f) == IF f = "a.mp3" THEN 30 ELSE 45

\* React.useState<number>(30)
InitialSegmentDuration == 30

\* the empty videoStatus
NoStatus == 0

\* answers of the generation service while the component is used
UiCreateResponses == BatchCreateResponses

UiStatusAnswers(j) ==
  {Answer("ok", NoBody, "completed",
          IF job[j].kind = "video"
          THEN [video_0_thumb |-> NoVal, image |-> NoVal, video |-> "video.mp4"]
          ELSE [video_0_thumb |-> NoVal, image |-> ImageUrl(j), video |-> NoVal],
          NoVal),
   Answer("ok", NoBody, "failed", NoAssets, "upstream failure")}

InitUI ==
  /\ LumaIdle
  /\ AudioIdle
  /\ RestIdle

\* the user picks a file: the results shown are cleared
handleFileUpload ==
  /\ \E selectedFile \in Files :
       ui' = [ui EXCEPT !.file = selectedFile, !.error = NoVal,
                        !.analyses = <<>>, !.generatedVideo = NoResponse,
                        !.analysesOf = NoVal, !.videoOf = NoVal]
  /\ UNCHANGED <<lumaVars, audioVars, flow, file, relay, wav>>

\* the analyze button, enabled while a file is selected and no analysis
\* runs: the state is reset and analyzeAudioFile is called and awaited
handleAnalyzeAudio ==
  /\ ui.file # NoVal
  /\ ~ui.analyzing
  /\ ui' = [ui EXCEPT !.analyzing = TRUE, !.error = NoVal, !.analyses = <<>>,
                      !.analysesOf = NoVal, !.analysisOf = ui.file]
  /\ file' = [IdleFile EXCEPT !.pc = "splitting"]
  /\ split' = [IdleSplit EXCEPT !.pc = "reading",
                                !.totalDuration = DurationOf(ui.file),
                                !.segmentDuration = InitialSegmentDuration]
  /\ an' = IdleAnalysis
  /\ UNCHANGED <<lumaVars, flow, relay, wav>>

\* the finally block of handleAnalyzeAudio
AnalysisEnded(u) ==
  [u EXCEPT !.analyzing = FALSE, !.analysisProgress = NoProgress]

\* the continuation of handleAnalyzeAudio once analyzeAudioFile has settled
\* as f: the results are stored, or the catch stores the message
AfterAnalysis(u, f) ==
  IF f.pc = "returned"
  THEN AnalysisEnded([u EXCEPT !.analyses = f.analyses,
                               !.analysesOf = u.analysisOf])
  ELSE IF f.pc = "failed"
  THEN AnalysisEnded([u EXCEPT !.error = f.error])
  ELSE u

\* the progress callback handleAnalyzeAudio passes to analyzeAudioFile
AnalysisProgressed(u, e) ==
  [u EXCEPT !.analysisProgress = [current |-> e.a, total |-> e.b]]

UiSegmentsReady ==
  /\ SegmentsReady
  /\ ui' = AfterAnalysis(ui, file')
  /\ UNCHANGED <<lumaVars, split, flow, relay, wav>>

UiSplitFailed ==
  /\ SplitFailed
  /\ ui' = AfterAnalysis(ui, file')
  /\ UNCHANGED <<lumaVars, an, split, flow, relay, wav>>

UiSegmentDone ==
  /\ SegmentDone
  /\ ui' = AfterAnalysis(
             AnalysisProgressed(ui, ProgressOf(file.i, Len(split.delivered))),
             file')
  /\ UNCHANGED <<lumaVars, split, flow, relay, wav>>

UiSegmentFailed ==
  /\ SegmentFailed
  /\ ui' = AfterAnalysis(ui, file')
  /\ UNCHANGED <<lumaVars, an, split, flow, relay, wav>>

\* variant: both flags are cleared when the image progress reaches the total
ImageProgressedBothFlags(u, progress, total) ==
  [u EXCEPT !.imageProgress = [current |-> progress, total |-> total],
            !.generatingImages = IF progress = total THEN FALSE ELSE @,
            !.generatingVideo = IF progress = total THEN FALSE ELSE @]

\* the image progress callback handleGenerateMedia passes to the flow
ImageProgressed(u, progress, total) ==
  [u EXCEPT !.imageProgress = [current |-> progress, total |-> total],
            !.generatingImages = IF progress = total THEN FALSE ELSE @]

\* the status callback handleGenerateMedia passes to the flow
VideoStatusSet(u, status) == [u EXCEPT !.videoStatus = status]

\* the generate button, rendered while there are analyses and enabled while
\* neither flag is set: both flags are set and executeFullGenerationFlow is
\* called with the file and the analyses; it reports the first status,
\* submits the first group of images and is awaited
handleGenerateMedia ==
  /\ ui.file # NoVal
  /\ Len(ui.analyses) > 0
  /\ ~(ui.generatingImages \/ ui.generatingVideo)
  /\ analyses' = ui.analyses
  /\ flow' = [IdleFlow EXCEPT !.pc = "images"]
  /\ batch' = [NoBatch EXCEPT !.pc = "awaiting"]
  /\ job' = SubmitGroup([j \in JobIds |-> IdleJob], 0, Len(ui.analyses))
  /\ log' = <<Status(ImagesStarting)>> \o CreateLog(0, Len(ui.analyses))
  /\ returned' = <<>>
  /\ ui' = VideoStatusSet([ui EXCEPT !.generatingImages = TRUE,
                                     !.generatingVideo = TRUE,
                                     !.error = NoVal,
                                     !.flowOf = ui.file,
                                     !.flows = @ + 1],
                          ImagesStarting)
  /\ UNCHANGED <<spy, audioVars, file, relay, wav>>

\* the finally block of handleGenerateMedia
GenerationEnded(u) ==
  [u EXCEPT !.generatingImages = FALSE, !.generatingVideo = FALSE,
            !.imageProgress = NoProgress, !.videoStatus = NoStatus,
            !.flows = @ - 1]

\* the continuation of handleGenerateMedia once the flow has settled as fl:
\* the video is stored, or the catch stores the message
AfterFlow(u, fl) ==
  IF fl.pc = "returned"
  THEN GenerationEnded([u EXCEPT !.generatedVideo = fl.result,
                                 !.videoOf = u.flowOf])
  ELSE IF fl.pc = "threw"
  THEN GenerationEnded([u EXCEPT !.error = fl.error.message])
  ELSE u

UiFinishGroup ==
  /\ PushGroup
  /\ ui' = ImageProgressed(ui, Min(batch.i + batchSize, Len(analyses)),
                           Len(analyses))
  /\ UNCHANGED <<spy, analyses, an, split, flow, file, relay, wav>>

UiImagesDone ==
  /\ ImagesDone
  /\ ui' = AfterFlow(VideoStatusSet(ui, VideoStarting), flow')
  /\ UNCHANGED <<spy, analyses, batch, returned, an, split, file, relay, wav>>

UiVideoDone ==
  /\ VideoDone
  /\ ui' = AfterFlow(IF flow'.pc = "returned"
                     THEN VideoStatusSet(ui, VideoCompleted) ELSE ui,
                     flow')
  /\ UNCHANGED <<job, spy, analyses, batch, returned, an, split, file, relay, wav>>

UiCreateAnswer ==
  \E j \in JobIds : \E resp \in UiCreateResponses : CreateAnswer(j, resp)

UiPollIteration ==
  \E j \in JobIds : /\ job[j].pc = "polling"
                    /\ \E ans \in UiStatusAnswers(j) : PollIteration(j, ans)

NextUI ==
  \/ handleFileUpload
  \/ handleAnalyzeAudio
  \/ Decoded
  \/ SegmentEncoded
  \/ SplitFails
  \/ UiSegmentsReady
  \/ UiSplitFailed
  \/ PrimaryThrows
  \/ FilePrimaryAnswer
  \/ SynthThrows
  \/ FileSynthAnswer
  \/ UiSegmentDone
  \/ UiSegmentFailed
  \/ handleGenerateMedia
  \/ UiCreateAnswer
  \/ UiPollIteration
  \/ UiFinishGroup
  \/ UiImagesDone
  \/ UiVideoDone

SpecUI == InitUI /\ [][NextUI]_vars

-----------------------------------------------------------------------------
(* Properties of a single call, under SpecJob *)

HasText(v) == v # NoVal /\ v # ""

TimedOut(j) ==
  /\ job[j].pc = "done"
  /\ job[j].result.state = "failed"
  /\ job[j].result.failure_reason = TimeoutMessage

\* C1: pollGenerationStatus issues at most 30 status queries for one job and
\* waits 2 seconds after each non-terminal answer; when all 30 answers are
\* pending/processing the call ends in the timeout error after 60 seconds of
\* waiting, and a 31st query is never issued.
C1_PollCeiling ==
  /\ spy.queries <= 30
  /\ spy.waits = spy.pending
  /\ spy.clock = 2000 * spy.pending
  /\ spy.pending <= 30
  /\ spy.pending = 30 => TimedOut(0) /\ spy.queries = 30 /\ spy.clock = 60000
  /\ TimedOut(0) => spy.pending = 30 /\ spy.queries = 30 /\ spy.clock = 60000

C1_Witness == TimedOut(0) /\ spy.pending = 30 /\ spy.last.state = "processing"

\* the request the last answer answered
LastRequest == IF spy.queries = 0 THEN job[0].kind ELSE "status"

\* the reason the claim names for a rejected request
ReasonOf(req, body) ==
  IF ~body.json THEN StatusLine(req)
  ELSE IF body.detail = "Insufficient credits" THEN CreditsMessage
  ELSE IF HasText(body.detail) THEN body.detail
  ELSE IF HasText(body.message) THEN body.message
  ELSE GenericMessage(req)

\* C8: a create request (image or video) or a status request answered with a
\* non-success HTTP status yields a job in state failed, not an exception; no
\* status query follows a rejected create; the reason is the
\* insufficient-credits message, else the body's detail, else its message,
\* else the generic message, and the status line when the body is not JSON.
C8_RejectedRequest ==
  spy.last.kind = "http" =>
    /\ job[0].pc = "done"
    /\ job[0].result.state = "failed"
    /\ job[0].result.id # UnknownId
    /\ job[0].result.id = (IF spy.queries = 0 THEN ErrorId ELSE GenId(0))
    /\ job[0].result.failure_reason = ReasonOf(LastRequest, spy.last.body)

C8_Witness ==
  /\ spy.last.kind = "http"
  /\ spy.last.body.json
  /\ spy.last.body.detail = "rate limited"
  /\ spy.last.body.message = "bad request"
  /\ spy.queries = 0
  /\ job[0].kind = "video"
  /\ job[0].pc = "done"

\* no call was rejected, and a call that ended holds a terminal state
C9_Resolved ==
  /\ job[0].pc # "rejected"
  /\ job[0].pc = "done" => job[0].result.state \in {"completed", "failed"}
  /\ spy.last.kind \in {"neterr", "badjson"} =>
       job[0].pc = "done" /\ job[0].result.state = "failed"

\* C9: under every sequence of HTTP outcomes (network error on create,
\* non-2xx, network error during polling, pending forever) generateLumaImage
\* and generateLumaVideo never reject; each call resolves to a job in state
\* completed or failed, never pending or processing.
C9_NeverRejects ==
  /\ []C9_Resolved
  /\ (job[0].pc = "creating") ~> (job[0].pc = "done")

C9_Witness ==
  /\ job[0].pc = "done"
  /\ spy.last.kind = "neterr"
  /\ spy.queries > 1
  /\ job[0].result = Failed(UnknownId, NetworkMessage)

\* the image URL the claim expects of a completed answer
ImageOf(assets) ==
  IF HasText(assets.video_0_thumb) THEN assets.video_0_thumb ELSE assets.image

TerminalAnswer(a) == a.kind = "ok" /\ a.state \in {"completed", "failed"}

\* C10: pollGenerationStatus returns at the first status answer that is
\* completed or failed, with the asset URLs of a completed answer and the
\* failure reason of a failed one; after a terminal answer no further status
\* query is issued and no further wait is made for that job.
C10_TerminalAnswer ==
  /\ TerminalAnswer(spy.last) =>
       /\ job[0].pc = "done"
       /\ job[0].result.id = GenId(0)
       /\ job[0].result.state = spy.last.state
       /\ spy.last.state = "completed" =>
            /\ job[0].result.imageUrl = ImageOf(spy.last.assets)
            /\ job[0].result.videoUrl = spy.last.assets.video
       /\ spy.last.state = "failed" =>
            job[0].result.failure_reason = spy.last.failure_reason
       /\ spy.queries = spy.pending + 1
       /\ spy.waits = spy.pending
  /\ job[0].pc = "polling" => ~TerminalAnswer(spy.last)

C10_Witness ==
  /\ TerminalAnswer(spy.last)
  /\ spy.last.state = "completed"
  /\ spy.pending = 2
  /\ job[0].result.imageUrl = "thumb.jpg"
  /\ job[0].result.videoUrl = "video.mp4"

-----------------------------------------------------------------------------
(* Properties of generateImagesInParallel, under SpecBatch *)

Terminal(j) == job[j].pc = "done" /\ job[j].result.state \in {"completed", "failed"}

\* C2: for every list of n analyses and every combination of job outcomes
\* generateImagesInParallel returns exactly n entries; entry i has
\* segmentIndex i and the times of analysis i and is failed (completed)
\* exactly when job i failed (completed).
C2_OneEntryPerAnalysis ==
  batch.pc = "returned" =>
    /\ Len(returned) = Len(analyses)
    /\ \A k \in 1..Len(returned) :
         /\ returned[k].segmentIndex = k - 1
         /\ returned[k].startTime = analyses[k].startTime
         /\ returned[k].endTime = analyses[k].endTime
         /\ Terminal(k - 1)
         /\ returned[k].imageResponse.state = "failed"
              <=> job[k - 1].result.state = "failed"
         /\ returned[k].imageResponse.state = "completed"
              <=> job[k - 1].result.state = "completed"

C2_Witness ==
  /\ batch.pc = "returned"
  /\ Len(returned) = 4
  /\ returned[2].imageResponse.state = "failed"
  /\ \A k \in {1, 3, 4} : returned[k].imageResponse.state = "completed"

GroupOf(j) == j \div 3

\* the position of event e in the log, 0 when absent
Position(e) ==
  IF \E p \in 1..Len(log') : log'[p] = e
  THEN CHOOSE p \in 1..Len(log') : log'[p] = e
  ELSE 0

\* C3: no image job of group k+1 is submitted before every job of group k
\* has reached a terminal state and the progress callback for group k has
\* been invoked.
C3_GroupBarrier ==
  [][\A j \in JobIds :
       (job[j].pc = "idle" /\ job'[j].pc # "idle" /\ GroupOf(j) > 0) =>
          /\ \A k \in 0..(j - 1) : GroupOf(k) < GroupOf(j) => Terminal(k)
          /\ Position(Progress(3 * GroupOf(j), Len(analyses))) > 0
          /\ Position(Progress(3 * GroupOf(j), Len(analyses))) < Position(Create(j))]_vars

C3_Witness ==
  /\ job[3].pc = "polling"
  /\ job[3].attempts = 2
  /\ \A k \in 0..2 : Terminal(k)
  /\ log = <<Create(0), Create(1), Create(2), Progress(3, 4), Create(3)>>

InFlight == {j \in JobIds : job[j].pc \in {"creating", "polling"}}

\* the sizes of the runs of create requests in a log
RECURSIVE GroupSizes(_)
GroupSizes(l) ==
  IF l = <<>> THEN <<>>
  ELSE LET rest == GroupSizes(SubSeq(l, 1, Len(l) - 1))
           e == l[Len(l)]
       IN IF e.ev = "progress" THEN Append(rest, 0)
          ELSE IF rest = <<>> THEN <<1>>
          ELSE [rest EXCEPT ![Len(rest)] = @ + 1]

\* the groups as they were closed by a progress callback
ClosedGroups(l) ==
  LET g == GroupSizes(l) IN
  IF g = <<>> THEN <<>> ELSE SubSeq(g, 1, Len(g) - 1)

CeilDiv(a, b) == (a + b - 1) \div b

ExpectedGroups(n) ==
  [k \in 1..CeilDiv(n, 3) |-> IF k < CeilDiv(n, 3) THEN 3
                              ELSE n - 3 * (CeilDiv(n, 3) - 1)]

\* C4: image batch generation over n prompts runs ceil(n/3) groups, all of
\* size 3 but the last, of size n - 3*(ceil(n/3)-1); at most 3 image jobs
\* are in flight in every reachable state.
C4_GroupsOfThree ==
  /\ Cardinality(InFlight) <= 3
  /\ batch.pc = "returned" =>
       /\ log # <<>> => log[Len(log)].ev = "progress"
       /\ ClosedGroups(log) = ExpectedGroups(Len(analyses))

C4_Witness ==
  /\ batch.pc = "returned"
  /\ Len(analyses) = 4
  /\ ClosedGroups(log) = <<3, 1>>

-----------------------------------------------------------------------------
(* Properties of analyzeAudioSegment, under SpecAnalyze *)

HasBraceSpan(text) ==
  \E a \in 1..Len(text) : \E b \in (a + 1)..Len(text) :
     text[a] = "{" /\ text[b] = "}"

\* the prompt answer holds text in braces that is not a JSON object
PromptUnparseable(promptText) ==
  HasBraceSpan(promptText) /\ ~IsJson(Match(promptText))

PrimarySucceeded == an.synthCalls = 1

SynthAnswered == an.synthThrew \/ an.pc = "returned" \/ (an.pc = "failed" /\ PrimarySucceeded)

\* C5: when the primary analysis succeeded and the prompt-synthesis call
\* throws or returns text whose JSON is unparseable, analyzeAudioSegment
\* still returns story, visual and emotion with imagePrompt equal to the
\* empty string; it does not fail the analysis.
C5_SoftFailPrompt ==
  (PrimarySucceeded /\ SynthAnswered
     /\ (an.synthThrew \/ PromptUnparseable(an.promptText))) =>
    /\ an.pc = "returned"
    /\ an.result.story = an.analysis.story
    /\ an.result.visual = an.analysis.visual
    /\ an.result.emotion = an.analysis.emotion
    /\ an.result.imagePrompt = ""

Lacks(obj, f) == obj[f] = NoVal \/ obj[f] = ""

\* the primary answer is malformed in one of the ways the claim names
Malformed(text) ==
  \/ ~HasBraceSpan(text)
  \/ ~IsJson(Match(text))
  \/ \E f \in {"story", "visual", "emotion"} : Lacks(JsonParse(Match(text)), f)

PrimaryAnswered == an.pc \in {"synth", "returned", "failed"} /\ ~an.primaryThrew

\* C6: when the primary answer contains no JSON object, text that does not
\* parse as JSON, or an object lacking (or with an empty) story, visual or
\* emotion field, analyzeAudioSegment fails with an error and returns no
\* partial result; the prompt-synthesis request is not issued and the
\* primary request is not repeated.
C6_HardFailPrimary ==
  (PrimaryAnswered /\ Malformed(an.text)) =>
    /\ an.pc = "failed"
    /\ an.error = AnalysisFailedMessage
    /\ an.result = NoAnalysis
    /\ an.synthCalls = 0
    /\ an.primaryCalls = 1

C6_Witness ==
  /\ an.pc = "failed"
  /\ an.text = <<"x", "{", "sv", "}">>
  /\ an.synthCalls = 0

-----------------------------------------------------------------------------
(* Properties of splitAudioIntoSegments, under SpecSplit *)

SegLength(seg) == seg.endTime - seg.startTime

\* C7: for total duration T > 0 and segment duration D > 0 exactly ceil(T/D)
\* segments are produced; all but the last have length D, the last has
\* length T mod D (or D when D divides T); the first starts at 0, each
\* starts where the previous one ends, and the last ends at T.
C7_SegmentsCoverAudio ==
  (split.pc = "resolved" /\ split.totalDuration > 0) =>
    LET T == split.totalDuration
        D == split.segmentDuration
        segs == split.delivered
        n == Len(segs)
    IN /\ n = CeilDiv(T, D)
       /\ \A k \in 1..(n - 1) : SegLength(segs[k]) = D
       /\ SegLength(segs[n]) = (IF T % D = 0 THEN D ELSE T % D)
       /\ segs[1].startTime = 0
       /\ \A k \in 2..n : segs[k].startTime = segs[k - 1].endTime
       /\ segs[n].endTime = T

C7_Witness ==
  /\ split.pc = "resolved"
  /\ split.totalDuration = 7
  /\ split.segmentDuration = 3
  /\ split.delivered = <<[startTime |-> 0, endTime |-> 3],
                         [startTime |-> 3, endTime |-> 6],
                         [startTime |-> 6, endTime |-> 7]>>

-----------------------------------------------------------------------------
(* The poll ceiling as the caller of generateLumaImage / generateLumaVideo
   sees it, under SpecJob *)

\* the poll ceiling was exceeded: all 30 status answers were non-terminal
CeilingExceeded == spy.pending = maxAttempts

\* the last answer was a failure declared by the upstream service
UpstreamFailure == spy.last.kind = "ok" /\ spy.last.state = "failed"

\* C11 (as stated): when the poll ceiling is exceeded for an image job or
\* for the video job, the call of generateLumaImage / generateLumaVideo ends
\* in an exception, not in a failed-state result.
C11_TimeoutIsException == CeilingExceeded => job[0].pc = "rejected"

\* C11 (amended): the timeout error of pollGenerationStatus is caught by
\* generateLumaImage / generateLumaVideo; their caller observes no exception
\* but a failed-state result with id 'unknown' and the timeout message as
\* reason, which differs from the result of a failure declared by the
\* upstream service (the job's id and the upstream reason).
C11_TimeoutIsFailedResult ==
  /\ job[0].pc # "rejected"
  /\ CeilingExceeded =>
       /\ job[0].pc = "done"
       /\ job[0].result = Failed(UnknownId, TimeoutMessage)
  /\ UpstreamFailure =>
       /\ job[0].pc = "done"
       /\ job[0].result = Failed(GenId(0), spy.last.failure_reason)
       /\ job[0].result # Failed(UnknownId, TimeoutMessage)

C11_Witness ==
  /\ CeilingExceeded
  /\ job[0].kind = "video"
  /\ job[0].pc = "done"
  /\ job[0].result.id = UnknownId

-----------------------------------------------------------------------------
(* Properties of executeFullGenerationFlow, under SpecFlow *)

\* segments whose image job ended completed with a URL
CompletedSegments ==
  {j \in 0..(Len(analyses) - 1) :
     /\ job[j].pc = "done"
     /\ job[j].result.state = "completed"
     /\ HasText(job[j].result.imageUrl)}

\* segments whose image job ended in state failed
FailedSegments ==
  {j \in 0..(Len(analyses) - 1) :
     job[j].pc = "done" /\ job[j].result.state = "failed"}

ImagesReturned == batch.pc = "returned"

\* the number of create requests issued for job j
Creates(j, lg) == Cardinality({k \in 1..Len(lg) : lg[k] = Create(j)})

\* createVideoFromImages was called and has thrown or issued its request
VideoStageEntered == flow.pc \in {"video", "returned", "threw"}

\* C12: when no generated image is in state completed with an image URL,
\* createVideoFromImages throws without issuing a video creation request and
\* executeFullGenerationFlow fails with that error.
C12_NoImagesNoVideo ==
  /\ (VideoStageEntered /\ CompletedSegments = {}) =>
       /\ flow.pc = "threw"
       /\ flow.error = FlowError(NoImagesMessage, NoVal)
       /\ flow.request = NoRequest
       /\ job[VideoJob].kind # "video"
       /\ Creates(VideoJob, log) = 0
  /\ flow.pc = "images" => flow.request = NoRequest

C12_Witness ==
  /\ flow.pc = "threw"
  /\ Len(analyses) = 3
  /\ job[0].result.state = "completed"
  /\ job[1].result.state = "failed"
  /\ CompletedSegments = {}

\* what createVideoFromImages and executeFullGenerationFlow hand to their
\* caller: the reasons of the response and of the error
CallerObserved ==
  {job[VideoJob].result.failure_reason, flow.result.failure_reason,
   flow.error.message, flow.error.reason}

VideoSubmitted == flow.request # NoRequest

MostImagesFailed ==
  2 * (Len(analyses) - Cardinality(CompletedSegments)) > Len(analyses)

\* C13: when at least one image succeeded and more than half of the images
\* failed, the video job is submitted and the caller of createVideoFromImages
\* observes a degraded-quality warning; when half or fewer failed, no warning
\* is emitted.
C13_WarningObservable ==
  /\ (flow.pc \in {"returned", "threw"} /\ CompletedSegments # {}
        /\ MostImagesFailed) =>
       /\ VideoSubmitted
       /\ DegradedWarning \in CallerObserved
  /\ (VideoStageEntered /\ ~MostImagesFailed) => flow.console = <<>>

\* the number of completed segments before segment j
Rank(j) == Cardinality({t \in CompletedSegments : t < j})

\* C14: in every run that reaches video submission the keyframes of the
\* request are frame0..frame(k-1) without gaps, k being the number of images
\* completed with a URL; frame j is the j-th such image in ascending
\* segmentIndex order, with that image's URL and that segment's start time,
\* and no image of a failed job appears.
C14_Keyframes ==
  VideoSubmitted =>
    /\ DOMAIN flow.request.keyframes = 0..(Cardinality(CompletedSegments) - 1)
    /\ \A j \in CompletedSegments :
         flow.request.keyframes[Rank(j)] =
           [type |-> "image", url |-> job[j].result.imageUrl,
            timing |-> analyses[j + 1].startTime]
    /\ \A j \in CompletedSegments : job[j].result.imageUrl = ImageUrl(j)
    /\ \A f \in DOMAIN flow.request.keyframes :
         \A j \in FailedSegments :
           flow.request.keyframes[f].timing # analyses[j + 1].startTime

C14_Witness ==
  /\ VideoSubmitted
  /\ Len(analyses) = 4
  /\ CompletedSegments = {0, 2, 3}
  /\ 1 \in FailedSegments
  /\ flow.request.keyframes[1].url = "image2.jpg"
  /\ flow.request.keyframes[2].timing = 90

\* C15: executeFullGenerationFlow returns a response only when the video
\* job's state is completed; when the video stage yields a failed state the
\* flow throws an error carrying the failure reason, so it never returns a
\* response in state failed.
C15_ReturnsOnlyCompleted ==
  /\ flow.pc = "returned" =>
       /\ flow.result.state = "completed"
       /\ flow.result = job[VideoJob].result
  /\ flow.pc # "returned" => flow.result = NoResponse
  /\ (flow.pc \in {"returned", "threw"} /\ VideoSubmitted
        /\ job[VideoJob].result.state = "failed") =>
       /\ flow.pc = "threw"
       /\ flow.error = FlowError(VideoFailedMessage,
                                 job[VideoJob].result.failure_reason)

C15_Witness ==
  /\ flow.pc = "threw"
  /\ VideoSubmitted
  /\ flow.error.reason = "upstream failure"

\* C17: within one run at most one image creation request is issued per
\* analysis and at most one video creation request in total; a job observed
\* as failed is never resubmitted and never polled again in that run.
C17_NoResubmission ==
  [][/\ \A j \in JobIds : Creates(j, log') <= 1
     /\ \A j \in JobIds : j > Len(analyses) => Creates(j, log') = 0
     /\ \A j \in JobIds :
          (job[j].pc = "done" /\ job[j].result.state = "failed") =>
            job'[j] = job[j]]_vars

C17_Witness ==
  /\ flow.pc = "returned"
  /\ Len(analyses) = 4
  /\ FailedSegments = {0, 3}
  /\ Creates(VideoJob, log) = 1

-----------------------------------------------------------------------------
(* Properties of analyzeAudioFile, under SpecFile *)

SegmentCount == Len(split.delivered)

\* a request to the text-generation service is awaiting its answer
CallInFlight == an.pc \in {"primary", "synth"}

\* C16: in analyzeAudioFile at most one call to the text-generation service
\* is in flight at any time: the analysis of segment i+1 starts only after
\* the analysis of segment i has finished and progress (i+1, total) has been
\* reported; the progress callback is invoked exactly once per segment, with
\* strictly increasing first argument ending at (total, total).
C16_OneSegmentAtATime ==
  /\ \A k \in 1..Len(file.events) :
       file.events[k] = IF k % 2 = 1 THEN Analyze((k - 1) \div 2)
                        ELSE Progress(k \div 2, SegmentCount)
  /\ Len(file.events) <= 2 * SegmentCount
  /\ file.pc = "returned" =>
       /\ Len(file.events) = 2 * SegmentCount
       /\ Len(file.analyses) = SegmentCount
  /\ CallInFlight =>
       /\ file.pc = "analyzing"
       /\ Len(file.events) = 2 * file.i + 1
       /\ Len(file.analyses) = file.i
       /\ an.startTime = split.delivered[file.i + 1].startTime
       /\ an.primaryCalls + an.synthCalls <= 2
       /\ an.pc = "primary" => an.synthCalls = 0

C16_Witness ==
  /\ file.pc = "returned"
  /\ SegmentCount = 3
  /\ file.events[6] = Progress(3, 3)
  /\ file.events[5] = Analyze(2)

-----------------------------------------------------------------------------
(* Properties of the credential, under SpecRelay *)

\* C18: no create request and no status request issued by the browser-side
\* code carries the generation service's bearer credential; the credential
\* appears only on requests the relay sends upstream.
C18_BrowserHoldsNoCredential ==
  \A k \in 1..Len(relay.inbox) :
    relay.inbox[k].authorization.token # LumaKey

\* C19: every request the Express relay forwards upstream, on the create
\* path and on the status path, carries the server-held secret as its bearer
\* credential and never the Authorization value sent by the browser,
\* whether or not the server-side secret is configured.
C19_RelayOverwritesCredential ==
  \A k \in 1..Len(relay.upstream) :
    relay.upstream[k].via = "express" =>
      /\ relay.upstream[k].authorization.setBy = "relay"
      /\ relay.upstream[k].authorization.token = relay.env.LUMA_API_KEY

-----------------------------------------------------------------------------
(* Termination of executeFullGenerationFlow, under SpecFlowFair *)

FlowEnded == flow.pc \in {"returned", "threw"}

\* the status queries issued so far stay within the ceiling, per job and in
\* total over the n image jobs and the video job
QueriesBounded ==
  /\ \A j \in JobIds : job[j].pc = "polling" => job[j].attempts + 1 <= maxAttempts
  /\ \A j \in JobIds : job[j].attempts < maxAttempts
  /\ spy.queries <= maxAttempts * (Len(analyses) + 1)

\* C20: assuming every HTTP call eventually returns or fails, every run of
\* executeFullGenerationFlow over n analyses eventually ends in completion or
\* in a thrown error, after at most 30 status queries per job and so at most
\* 30*(n+1) status queries in total.
C20_FlowTerminates ==
  /\ []QueriesBounded
  /\ (flow.pc # "idle") ~> FlowEnded

C20_Witness ==
  /\ FlowEnded
  /\ Len(analyses) = 1
  /\ spy.queries = 2 * maxAttempts

-----------------------------------------------------------------------------
(* Failure of splitAudioIntoSegments, under SpecSplit *)

\* C21: when reading or decoding the audio file fails, or encoding a segment
\* fails part-way through the loop, splitAudioIntoSegments rejects and
\* delivers no segments at all; it never resolves with a prefix of the
\* segments.
C21_SplitAllOrNothing ==
  /\ split.pc # "resolved" => split.delivered = <<>>
  /\ split.pc = "resolved" =>
       /\ split.delivered = split.segments
       /\ Len(split.delivered) =
            CeilDiv(split.totalDuration, split.segmentDuration)
       /\ ~ForCond(split.startTime, split.totalDuration)

C21_Witness ==
  /\ split.pc = "rejected"
  /\ Len(split.segments) = 2
  /\ split.totalDuration = 9
  /\ split.segmentDuration = 2

-----------------------------------------------------------------------------
(* The fields of a returned SegmentAnalysis, under SpecAnalyze *)

\* C22 (as stated): every SegmentAnalysis returned by analyzeAudioSegment
\* has story, visual, emotion and imagePrompt non-empty.
C22_AllFourNonEmpty ==
  an.pc = "returned" =>
    /\ HasText(an.result.story)
    /\ HasText(an.result.visual)
    /\ HasText(an.result.emotion)
    /\ HasText(an.result.imagePrompt)

\* positions of the imagePrompt members of a span
PromptMemberPositions(span) ==
  {q \in 1..Len(span) : span[q] \in PromptMembers}

\* the brace span of the prompt answer names a non-empty imagePrompt: its
\* last member does
NamesPrompt(promptText) ==
  LET span == Match(promptText) IN
  \E q \in PromptMemberPositions(span) :
     /\ \A r \in PromptMemberPositions(span) : r <= q
     /\ span[q] = "p"

\* C22 (amended): every SegmentAnalysis returned by analyzeAudioSegment has
\* story, visual and emotion non-empty and a primary response lacking one of
\* them yields a failure; imagePrompt is always a string, and it is the
\* empty string when the prompt answer has no brace span or its object names
\* no non-empty imagePrompt.
C22_ThreeFieldsNonEmpty ==
  /\ an.pc = "returned" =>
       /\ HasText(an.result.story)
       /\ HasText(an.result.visual)
       /\ HasText(an.result.emotion)
       /\ an.result.imagePrompt # NoVal
       /\ an.result.imagePrompt = "" <=> ~NamesPrompt(an.promptText)
  /\ (PrimaryAnswered /\ Malformed(an.text)) => an.pc = "failed"

C22_Witness ==
  /\ an.pc = "returned"
  /\ an.result.imagePrompt = ""
  /\ an.result.emotion = "a mood"
  /\ an.promptText = <<"x">>

-----------------------------------------------------------------------------
(* The recorded errors of generateImagesInParallel, under SpecBatch *)

\* entries of the returned list whose image ended in state failed
FailedEntries ==
  {k \in 1..Len(returned) : returned[k].imageResponse.state = "failed"}

\* C23: after batch image generation in which k > 0 items ended in state
\* failed, an aggregate failure count equal to k is surfaced: the list of
\* recorded errors has one entry per failed item.
C23_FailureCount ==
  batch.pc = "returned" => Len(batch.errors) = Cardinality(FailedEntries)

-----------------------------------------------------------------------------
(* The byte stream of bufferToWav, under SpecWav *)

\* C24: encoding a buffer of n frames and c channels with bufferToWav gives
\* a stream that decodes to n frames and c channels: its payload holds
\* exactly n*c 16-bit samples (n*c*2 bytes), the size its header declares.
C24_WavRoundTrip ==
  wav.pc = "encoded" =>
    LET n == FramesOf(wav.channelData)
        c == Len(wav.channelData)
    IN /\ wav.header.numOfChannels = c
       /\ wav.header.dataSize = n * c * 2
       /\ Len(wav.audioData) = n * c
       /\ PayloadBytes(wav.audioData) = wav.header.dataSize

-----------------------------------------------------------------------------
(* Order of the stages of executeFullGenerationFlow, under SpecFlow *)

IsStatus(e) == e.ev = "status"

\* the messages passed to onVideoProgress so far, in order
StatusesReported == SelectSeq(log, IsStatus)

AllStatuses == <<Status(ImagesStarting), Status(VideoStarting), Status(VideoCompleted)>>

\* the place of the one event e in the log, 0 if it is not there
PlaceOf(e) ==
  IF \E k \in 1..Len(log) : log[k] = e
  THEN CHOOSE k \in 1..Len(log) : log[k] = e
  ELSE 0

\* C25: in every run of executeFullGenerationFlow the video creation request
\* is issued at most once and only after every image job of the run has
\* reached a terminal state; the status messages are reported in the order
\* image-start, video-start, completed, and the completed message is
\* reported only when the video job's state is completed.
C25_StagesInOrder ==
  /\ Creates(VideoJob, log) <= 1
  /\ Creates(VideoJob, log) = 1 =>
       /\ \A j \in 0..(Len(analyses) - 1) : Terminal(j)
       /\ \A j \in 0..(Len(analyses) - 1) :
            0 < PlaceOf(Create(j)) /\ PlaceOf(Create(j)) < PlaceOf(Create(VideoJob))
       /\ PlaceOf(Status(VideoStarting)) < PlaceOf(Create(VideoJob))
  /\ StatusesReported = SubSeq(AllStatuses, 1, Len(StatusesReported))
  /\ Len(StatusesReported) <= 3
  /\ \A j \in 0..(Len(analyses) - 1) :
       (0 < PlaceOf(Create(j)) /\ 0 < PlaceOf(Status(VideoStarting))) =>
         PlaceOf(Create(j)) < PlaceOf(Status(VideoStarting))
  /\ 0 < PlaceOf(Status(VideoCompleted)) =>
       /\ job[VideoJob].pc = "done"
       /\ job[VideoJob].result.state = "completed"
       /\ flow.pc = "returned"

C25_Witness ==
  /\ flow.pc = "returned"
  /\ Len(analyses) = 4
  /\ StatusesReported = AllStatuses
  /\ FailedSegments = {2}

-----------------------------------------------------------------------------
(* Extraction of the JSON object, under SpecAnalyze *)

\* the first brace span of a text: from the first opening brace to the
\* first closing brace after it
FirstSpan(text) ==
  LET opens == {q \in 1..Len(text) : text[q] = "{"} IN
  IF opens = {} THEN <<>>
  ELSE LET a == CHOOSE q \in opens : \A r \in opens : q <= r
           closes == {q \in (a + 1)..Len(text) : text[q] = "}"}
       IN IF closes = {} THEN <<>>
          ELSE SubSeq(text, a, CHOOSE q \in closes : \A r \in closes : q <= r)

\* the text starts a well-formed object with the three fields and goes on
\* with text that holds another closing brace
ObjectThenBrace(text) ==
  /\ IsJson(FirstSpan(text))
  /\ \A f \in {"story", "visual", "emotion"} :
       ~Lacks(JsonParse(FirstSpan(text)), f)
  /\ Match(text) # FirstSpan(text)

\* C26: the JSON object of a text-service response is extracted as the
\* first balanced brace span: for a response that holds a well-formed object
\* with story, visual and emotion followed by further text with a closing
\* brace or a second object, the analysis parses the first object and
\* succeeds.
C26_FirstObjectParsed ==
  (PrimaryAnswered /\ ObjectThenBrace(an.text)) =>
    /\ PrimarySucceeded
    /\ an.analysis = JsonParse(FirstSpan(an.text))

-----------------------------------------------------------------------------
(* The results list of generateImagesInParallel, under SpecBatch *)

\* the list is in ascending segmentIndex order without gaps
Ascending(results) == \A k \in 1..Len(results) : results[k].segmentIndex = k - 1

\* C27: in generateImagesInParallel the results list is changed only between
\* groups, never by a job in flight, and after every group it is already in
\* ascending segmentIndex order under every completion order of the
\* concurrent jobs, so the final sort changes nothing.
C27_SortChangesNothing ==
  [][/\ batch'.results # batch.results =>
          /\ batch.pc = "awaiting"
          /\ GroupSettled(batch.i, Len(analyses))
          /\ batch'.results = batch.results \o BatchResults(batch.i, Len(analyses))
     /\ Ascending(batch'.results)
     /\ batch'.pc = "returned" => returned' = batch'.results]_vars

C27_Witness ==
  /\ batch.pc = "awaiting"
  /\ batch.i = 3
  /\ Len(batch.results) = 3
  /\ job[0].result.state = "failed"
  /\ job[1].result.state = "completed"
  /\ job[3].pc = "done"

-----------------------------------------------------------------------------
(* The multi-segment UI, under SpecUI *)

\* Analyze(k) was logged for a segment after segment i
AnalyzedAfter(i) ==
  \E x \in 1..Len(file.events) :
    file.events[x].ev = "analyze" /\ file.events[x].a > i

\* the analysis of a segment failed, the split having delivered its segments
SegmentAnalysisFailed == file.pc = "failed" /\ split.pc = "resolved"

\* C28: analyzeAudioFile is all-or-nothing: it either returns one analysis
\* per segment, in segment order with each analysis carrying its segment's
\* start and end time, or it fails; when the analysis of segment i fails, no
\* later segment is analyzed, the analyses of segments before i are
\* discarded, and the UI's analyses list stays empty.
C28_AllOrNothing ==
  /\ file.pc = "returned" =>
       /\ Len(file.analyses) = Len(split.delivered)
       /\ \A k \in 1..Len(file.analyses) :
            /\ file.analyses[k].startTime = split.delivered[k].startTime
            /\ file.analyses[k].endTime = split.delivered[k].endTime
  /\ SegmentAnalysisFailed =>
       /\ Len(file.analyses) = file.i
       /\ ~AnalyzedAfter(file.i)
  /\ file.pc \in {"splitting", "analyzing", "failed"} => ui.analyses = <<>>
  /\ ui.analyses # <<>> => file.pc = "returned" /\ ui.analyses = file.analyses

C28_Witness ==
  /\ SegmentAnalysisFailed
  /\ file.i = 1
  /\ Len(split.delivered) = 2
  /\ Len(file.analyses) = 1
  /\ ~ui.analyzing
  /\ ui.error = file.error
  /\ ui.analyses = <<>>

\* C29: in the multi-segment UI, under every interleaving of file selection
\* with a running analysis or generation flow, a non-empty analyses list and
\* a non-null generatedVideo were always computed from the currently selected
\* file: a result of a flow started for an earlier file is never stored after
\* a new file was selected.
C29_ResultsOfSelectedFile ==
  /\ ui.analyses # <<>> => ui.analysesOf = ui.file
  /\ ui.generatedVideo # NoResponse => ui.videoOf = ui.file

\* a generation flow is between its call and its return or throw
FlowInFlight == flow.pc \in {"images", "video"}

\* C30: in the multi-segment UI at most one generation flow is in flight at
\* any time: from the start of executeFullGenerationFlow until it returns or
\* throws, generatingImages or generatingVideo is true (also after image
\* progress reaches the total) so the generate button stays disabled, and
\* both flags, the image progress and the video status are reset once the
\* flow has ended, whether it succeeded or failed.
C30_OneFlowInFlight ==
  /\ ui.flows <= 1
  /\ FlowInFlight <=> ui.flows = 1
  /\ FlowInFlight => ui.generatingImages \/ ui.generatingVideo
  /\ ~FlowInFlight =>
       /\ ~ui.generatingImages
       /\ ~ui.generatingVideo
       /\ ui.imageProgress = NoProgress
       /\ ui.videoStatus = NoStatus

C30_Witness ==
  /\ flow.pc = "video"
  /\ ui.imageProgress.total = 2
  /\ ui.imageProgress.current = ui.imageProgress.total
  /\ ~ui.generatingImages
  /\ ui.generatingVideo
  /\ ui.videoStatus = VideoStarting

=============================================================================
